---- MODULE Spec2Model ----
(***************************************************************************)
(* Exchange-rate worker of expense-budget-tracker: the three fetchers      *)
(* (ECB, CBR, NBS), their shared reconciliation shape (coverage read ->    *)
(* window -> fetch -> parse -> convert -> filter -> insert) and the two    *)
(* callers (lambda_handler.handler, scheduler.run_all / scheduled jobs).   *)
(*                                                                         *)
(* Dates are day numbers.  A decimal.Decimal (never negative here) is a    *)
(* record [int, frac]: its integer part and the digits str() writes after  *)
(* the decimal point.                                                      *)
(***************************************************************************)
EXTENDS Integers, Sequences, FiniteSets, Bags, TLC

VARIABLES
    exchange_rates,   \* the table: a bag of rows (a heap; uniqueness is the index's job)
    today,            \* date.today()
    ledger_entries,   \* the ts::date values of the ledger (another system writes them)
    feed,             \* the provider that publishes (live) and what it holds for each day
    run,              \* run[s]: the fetcher run executing in process s (its locals and position)
    caller,           \* caller[s]: the entrypoint executing in process s
    conv              \* one function applied on its own: its input, its output, its position

vars == <<exchange_rates, today, ledger_entries, feed, run, caller, conv>>

----------------------------------------------------------------------------
(* Bounds *)

MaxDay == 2          \* days are 0..MaxDay
MaxProc == 2         \* processes that may run fetchers at the same time

Days == 0..MaxDay
Procs == 1..MaxProc

----------------------------------------------------------------------------
(* decimal.Decimal arithmetic under the default context                    *)

PREC == 28           \* decimal.getcontext().prec
QUANT == 9           \* digits of Decimal("0.000000001")
LOOKBACK == 30       \* timedelta(days=30)

RECURSIVE Pow10(_)
Pow10(k) == IF k = 0 THEN 1 ELSE 10 * Pow10(k - 1)

RECURSIVE NumDigits(_)
NumDigits(n) == IF n < 10 THEN 1 ELSE 1 + NumDigits(n \div 10)

\* k digits of the fraction r/d by long division, and the remainder left.
RECURSIVE LongDiv(_, _, _, _)
LongDiv(acc, r, d, k) ==
    IF k = 0 THEN [digits |-> acc, rem |-> r]
    ELSE LongDiv(Append(acc, (r * 10) \div d), (r * 10) % d, d, k - 1)

\* zeros after the decimal point before the first non-zero digit of r/d (0 < r < d).
RECURSIVE LeadZeros(_, _)
LeadZeros(r, d) ==
    IF (r * 10) \div d > 0 THEN 0 ELSE 1 + LeadZeros(r * 10, d)

AllNines(ds) == \A i \in 1..Len(ds) : ds[i] = 9
AllZeros(ds) == \A i \in 1..Len(ds) : ds[i] = 0

\* ds + 1 in the last place, for a digit string that is not all nines.
RECURSIVE Incr(_)
Incr(ds) ==
    LET n == Len(ds) IN
    IF ds[n] < 9 THEN [ds EXCEPT ![n] = ds[n] + 1]
    ELSE Append(Incr(SubSeq(ds, 1, n - 1)), 0)

RECURSIVE DigitsToInt(_)
DigitsToInt(ds) ==
    IF ds = <<>> THEN 0
    ELSE 10 * DigitsToInt(SubSeq(ds, 1, Len(ds) - 1)) + ds[Len(ds)]

\* The quotient n/d (n >= 0, d > 0) as Decimal.__truediv__ gives it: correctly
\* rounded (ROUND_HALF_EVEN) to PREC significant digits.  Returned as the
\* integer part and the fraction's digit string.
DecimalDivide(n, d) ==
    LET ip   == n \div d
        r0   == n % d
        p    == IF ip > 0 THEN PREC - NumDigits(ip)
                ELSE IF r0 = 0 THEN PREC
                ELSE LeadZeros(r0, d) + PREC
        ld   == LongDiv(<<>>, r0, d, p)
        up   == \/ 2 * ld.rem > d
                \/ 2 * ld.rem = d /\ ld.digits[p] % 2 = 1
    IN  IF ~up THEN [int |-> ip, frac |-> ld.digits]
        ELSE IF AllNines(ld.digits)
             THEN [int |-> ip + 1, frac |-> [i \in 1..p |-> 0]]
             ELSE [int |-> ip, frac |-> Incr(ld.digits)]

\* quantize under ROUND_HALF_UP instead of the context's ROUND_HALF_EVEN.
QuantizeHalfUp(q) ==
    LET head == SubSeq(q.frac, 1, QUANT)
        tail == SubSeq(q.frac, QUANT + 1, Len(q.frac))
        up   == tail[1] >= 5
    IN  IF ~up THEN [int |-> q.int, frac |-> head]
        ELSE IF AllNines(head)
             THEN [int |-> q.int + 1, frac |-> [i \in 1..QUANT |-> 0]]
             ELSE [int |-> q.int, frac |-> Incr(head)]

\* Decimal.quantize(Decimal("0.000000001")) of a quotient: ROUND_HALF_EVEN at
\* QUANT places; the result is written with exactly QUANT digits.
Quantize(q) ==
    LET head == SubSeq(q.frac, 1, QUANT)
        tail == SubSeq(q.frac, QUANT + 1, Len(q.frac))
        up   == \/ tail[1] > 5
                \/ tail[1] = 5 /\ ~AllZeros(SubSeq(tail, 2, Len(tail)))
                \/ tail[1] = 5 /\ AllZeros(SubSeq(tail, 2, Len(tail))) /\ head[QUANT] % 2 = 1
    IN  IF ~up THEN [int |-> q.int, frac |-> head]
        ELSE IF AllNines(head)
             THEN [int |-> q.int + 1, frac |-> [i \in 1..QUANT |-> 0]]
             ELSE [int |-> q.int, frac |-> Incr(head)]

\* The Decimal written with the digits of c and s of them after the point.
RECURSIVE FracDigits(_, _)
FracDigits(c, s) ==
    IF s = 0 THEN <<>> ELSE Append(FracDigits(c \div 10, s - 1), c % 10)
Dec(c, s) == [int |-> c \div Pow10(s), frac |-> FracDigits(c % Pow10(s), s)]

Scale(x) == Len(x.frac)
IsZero(x) == x.int = 0 /\ AllZeros(x.frac)
\* x as an integer number of units of 10^(-m), m >= Scale(x).
Scaled(x, m) == (x.int * Pow10(Scale(x)) + DigitsToInt(x.frac)) * Pow10(m - Scale(x))

\* (a / b).quantize(Decimal("0.000000001")) for Decimals a >= 0, b > 0: the
\* quotient of the coefficients once both are written at the same scale.
QuotientQuantized(a, b) ==
    LET m == IF Scale(a) > Scale(b) THEN Scale(a) ELSE Scale(b)
    IN  Quantize(DecimalDivide(Scaled(a, m), Scaled(b, m)))

----------------------------------------------------------------------------
(* Wire values.  A text field of a payload is numeric (with its digits),   *)
(* empty, non-numeric, or absent (None / missing element).  A date field   *)
(* is a well-formed date, malformed, or absent.                            *)

Num(c, s) == [kind |-> "num", coef |-> c, scale |-> s]
EmptyText == [kind |-> "empty", coef |-> 0, scale |-> 0]
BadText == [kind |-> "bad", coef |-> 0, scale |-> 0]
AbsentText == [kind |-> "absent", coef |-> 0, scale |-> 0]

DateText(d) == [kind |-> "date", day |-> d]
BadDate == [kind |-> "bad", day |-> 0]
AbsentDate == [kind |-> "absent", day |-> 0]

\* Decimal(text) of a numeric text.
ToDecimal(t) == Dec(t.coef, t.scale)

\* How a function ends.  A converter that raises leaves its local list `rows`
\* as far as it was built (out); nobody receives it.
Raise(e) == [err |-> e, out |-> <<>>]
RaiseWith(e, rows) == [err |-> e, out |-> rows]
Return(v) == [err |-> "none", out |-> v]

\* Currency codes in str order, for sorted().
CodeOrder == <<"BGN", "EUR", "GBP", "RSD", "RUB", "TRY", "USD">>
Sorted(codes) == SelectSeq(CodeOrder, LAMBDA c : c \in codes)

RECURSIVE Flatten(_)
Flatten(ss) == IF ss = <<>> THEN <<>> ELSE Head(ss) \o Flatten(Tail(ss))

Range(s) == {s[i] : i \in 1..Len(s)}

ExchangeRateRow(b, d, r) ==
    [base_currency |-> b, quote_currency |-> "USD", rate_date |-> d, rate |-> r]

----------------------------------------------------------------------------
(* config.py *)

ECB_CURRENCIES == <<"BGN", "EUR", "GBP", "TRY">>
NBS_MAX_COUNT == 1000
CBR_CURRENCY == "RUB"
NBS_CURRENCY == "RSD"

----------------------------------------------------------------------------
(* fetchers/ecb.py: parser and converter *)

ECBRate(c, d, r) == [currency |-> c, rate_date |-> d, rate_eur |-> r]

\* csv_text is the sequence of data rows [CURRENCY, TIME_PERIOD, OBS_VALUE].
\* "if not obs_value: continue" passes over an empty field and over the None
\* csv.DictReader gives for a field a short row does not have.
parse_ecb_csv(csv_text) ==
    LET kept == SelectSeq(csv_text, LAMBDA row : row.OBS_VALUE.kind \notin {"empty", "absent"})
    IN  IF \E i \in 1..Len(kept) : kept[i].OBS_VALUE.kind # "num"
        THEN Raise("ValueError")
        ELSE Return([i \in 1..Len(kept) |->
                ECBRate(kept[i].CURRENCY, kept[i].TIME_PERIOD, ToDecimal(kept[i].OBS_VALUE))])

\* rates_by_date[d][c]: the last record of (d, c) wins (dict assignment).
DayCurrencies(ecb_rates, d) ==
    {ecb_rates[i].currency : i \in {j \in 1..Len(ecb_rates) : ecb_rates[j].rate_date = d}}
DayRate(ecb_rates, d, c) ==
    LET idx == {j \in 1..Len(ecb_rates) :
                    ecb_rates[j].rate_date = d /\ ecb_rates[j].currency = c}
        last == CHOOSE j \in idx : \A k \in idx : k <= j
    IN  ecb_rates[last].rate_eur

\* The body of the outer loop for one date: its rows, or the error it raises
\* (no USD quote; a division by a zero quote) with the rows appended before.
ConvertDay(ecb_rates, d) ==
    LET codes == Sorted(DayCurrencies(ecb_rates, d))
        eur_usd == DayRate(ecb_rates, d, "USD")
        zero == {i \in 1..Len(codes) :
                    codes[i] # "USD" /\ IsZero(DayRate(ecb_rates, d, codes[i]))}
        n == IF zero = {} THEN Len(codes)
             ELSE (CHOOSE i \in zero : \A j \in zero : i <= j) - 1
        rows == [i \in 1..n |->
                IF codes[i] = "USD"
                THEN ExchangeRateRow("EUR", d, eur_usd)
                ELSE ExchangeRateRow(codes[i], d,
                        QuotientQuantized(eur_usd, DayRate(ecb_rates, d, codes[i])))]
    IN  IF "USD" \notin DayCurrencies(ecb_rates, d) THEN Raise("MissingReferenceRate")
        ELSE IF zero # {} THEN RaiseWith("DivisionByZero", rows)
        ELSE Return(rows)

\* The outer loop over the dates in order: the rows of the first date, then
\* (unless it raised) those of the later dates.
ThenLater(first, later) ==
    IF first.err # "none" THEN first
    ELSE [err |-> later.err, out |-> first.out \o later.out]

RECURSIVE ConvertDays(_, _)
ConvertDays(ecb_rates, dates) ==
    IF dates = {} THEN Return(<<>>)
    ELSE LET d == CHOOSE x \in dates : \A y \in dates : x <= y
         IN  ThenLater(ConvertDay(ecb_rates, d), ConvertDays(ecb_rates, dates \ {d}))

convert_eur_rates_to_usd(ecb_rates) ==
    ConvertDays(ecb_rates, {ecb_rates[i].rate_date : i \in 1..Len(ecb_rates)})

----------------------------------------------------------------------------
(* fetchers/cbr.py: parser and converter *)

CBRRecord(d, n, v) == [rate_date |-> d, nominal |-> n, value |-> v]

\* One <Record Date=...><Nominal/><Value/></Record>: None checks, then
\* parse_cbr_date, int(), parse_cbr_decimal, each of which may raise.
CbrRecordOk(el) ==
    /\ el.Date.kind = "date"
    /\ el.Nominal.kind = "num" /\ el.Nominal.scale = 0
    /\ el.Value.kind = "num"

parse_cbr_xml(xml) ==
    IF \E i \in 1..Len(xml) : ~CbrRecordOk(xml[i]) THEN Raise("ValueError")
    ELSE Return([i \in 1..Len(xml) |->
            CBRRecord(xml[i].Date.day, xml[i].Nominal.coef, ToDecimal(xml[i].Value))])

convert_cbr_to_usd(records) ==
    LET zero == {i \in 1..Len(records) : IsZero(records[i].value)}
        n == IF zero = {} THEN Len(records)
             ELSE (CHOOSE i \in zero : \A j \in zero : i <= j) - 1
        rows == [i \in 1..n |->
            ExchangeRateRow(CBR_CURRENCY, records[i].rate_date,
                QuotientQuantized(Dec(records[i].nominal, 0), records[i].value))]
    IN  IF zero # {} THEN RaiseWith("ValueError", rows) ELSE Return(rows)

----------------------------------------------------------------------------
(* fetchers/nbs.py: parser and converter *)

NBSRecord(d, m) == [rate_date |-> d, exchange_middle |-> m]

NbsEntryOk(entry) ==
    /\ entry.date.kind = "date"
    /\ entry.exchange_middle.kind = "num"
    /\ entry.exchange_middle.coef # 0

\* data is the list under "rates" (run always wraps the entries that way).
parse_nbs_response(data) ==
    IF \E i \in 1..Len(data) : ~NbsEntryOk(data[i]) THEN Raise("ValueError")
    ELSE Return([i \in 1..Len(data) |->
            NBSRecord(data[i].date.day, ToDecimal(data[i].exchange_middle))])

convert_nbs_to_usd(records) ==
    Return([i \in 1..Len(records) |->
        ExchangeRateRow(NBS_CURRENCY, records[i].rate_date,
            QuotientQuantized(Dec(1, 0), records[i].exchange_middle))])

----------------------------------------------------------------------------
(* The providers' published data.  One provider publishes, feed.days[d]    *)
(* naming what it holds for day d; the other two hold nothing (the three   *)
(* write disjoint currencies).  One quote per currency (the spec's         *)
(* examples).                                                              *)

Providers == {"ecb", "cbr", "nbs"}

EcbKinds == {"closed", "full", "suspended", "partial"}
CbrKinds == {"closed", "one", "twice"}
NbsKinds == {"closed", "one"}
Kinds(p) == CASE p = "ecb" -> EcbKinds [] p = "cbr" -> CbrKinds [] p = "nbs" -> NbsKinds
Kind(p, d) == IF feed.live = p THEN feed.days[d] ELSE "closed"

\* currencies the ECB quotes against EUR on a day of each kind
EcbQuoted(kind) ==
    CASE kind = "closed" -> {}
      [] kind = "full" -> {"USD", "BGN", "GBP", "TRY"}
      [] kind = "suspended" -> {"USD", "BGN", "GBP"}
      [] kind = "partial" -> {"USD", "TRY"}

EcbQuote(c) ==
    CASE c = "USD" -> Num(10850, 4)
      [] c = "GBP" -> Num(8600, 4)
      [] c = "BGN" -> Num(19558, 4)
      [] c = "TRY" -> Num(351000, 4)

CbrElement(d) == [Date |-> DateText(d), Nominal |-> Num(1, 0), Value |-> Num(9150, 2)]
NbsEntry(d) == [date |-> DateText(d), exchange_middle |-> Num(989309, 4)]

\* days of [start, end] for which anything can be published
WindowDays(start, end) == {d \in Days : start <= d /\ d <= end}

RECURSIVE InDateOrder(_)
InDateOrder(days) ==
    IF days = {} THEN <<>>
    ELSE LET d == CHOOSE x \in days : \A y \in days : x <= y
         IN  <<d>> \o InDateOrder(days \ {d})

\* ECB SDMX csvdata: one series per currency of the key, each in date order.
EcbSeries(c, start, end) ==
    LET PerDay(d) == IF c \in EcbQuoted(Kind("ecb", d))
                     THEN <<[CURRENCY |-> c, TIME_PERIOD |-> d, OBS_VALUE |-> EcbQuote(c)]>>
                     ELSE <<>>
        ds == InDateOrder(WindowDays(start, end))
    IN  Flatten([i \in 1..Len(ds) |-> PerDay(ds[i])])

fetch_ecb_rates(currencies_with_usd, start_period, end_period) ==
    Flatten([i \in 1..Len(currencies_with_usd) |->
                EcbSeries(currencies_with_usd[i], start_period, end_period)])

fetch_cbr_rates(start, end) ==
    LET PerDay(d) == CASE Kind("cbr", d) = "closed" -> <<>>
                       [] Kind("cbr", d) = "one" -> <<CbrElement(d)>>
                       [] Kind("cbr", d) = "twice" -> <<CbrElement(d), CbrElement(d)>>
        ds == InDateOrder(WindowDays(start, end))
    IN  Flatten([i \in 1..Len(ds) |-> PerDay(ds[i])])

\* GET .../rates/{cursor}/count/{count}: the object itself when it holds one
\* rate, an object with a "rates" array otherwise.
NbsResponse(cursor, count) ==
    LET PerDay(d) == IF Kind("nbs", d) = "one" THEN <<NbsEntry(d)>> ELSE <<>>
        ds == InDateOrder(WindowDays(cursor, cursor + count - 1))
        entries == Flatten([i \in 1..Len(ds) |-> PerDay(ds[i])])
    IN  IF count = 1 /\ Len(entries) = 1
        THEN [shape |-> "single", rates |-> entries]
        ELSE [shape |-> "rates", rates |-> entries]

\* The rest of the window asked for in one request, whatever its length.
nbs_count_uncapped(remaining_days) == remaining_days

\* count = min(remaining_days, NBS_MAX_COUNT)
nbs_count(remaining_days) ==
    IF remaining_days < NBS_MAX_COUNT THEN remaining_days ELSE NBS_MAX_COUNT

\* What one pass of the loop adds to all_entries: extend(data["rates"]) or
\* append(data).
NbsEntriesOf(data) == IF data.shape = "rates" THEN data.rates ELSE <<data.rates[1]>>

RECURSIVE fetch_nbs_rates(_, _)
fetch_nbs_rates(cursor, end) ==
    IF ~(cursor <= end) THEN <<>>
    ELSE LET count == nbs_count((end - cursor) + 1)
         IN  NbsEntriesOf(NbsResponse(cursor, count)) \o fetch_nbs_rates(cursor + count, end)

----------------------------------------------------------------------------
(* Postgres operations *)

TableRows == BagToSet(exchange_rates)
SameKey(r1, r2) ==
    /\ r1.base_currency = r2.base_currency
    /\ r1.quote_currency = r2.quote_currency
    /\ r1.rate_date = r2.rate_date

RowsOf(table, c) ==
    {r \in BagToSet(table) : r.base_currency = c /\ r.quote_currency = "USD"}
MinDate(rows) == CHOOSE d \in {r.rate_date : r \in rows} : \A r \in rows : d <= r.rate_date
MaxDate(rows) == CHOOSE d \in {r.rate_date : r \in rows} : \A r \in rows : d >= r.rate_date

\* SELECT base_currency, MIN(rate_date), MAX(rate_date) ... GROUP BY base_currency:
\* one result row per currency that has rows.
get_rate_date_ranges(table, currencies) ==
    {[base_currency |-> c, min_date |-> MinDate(RowsOf(table, c)),
      max_date |-> MaxDate(RowsOf(table, c))] :
        c \in {x \in Range(currencies) : RowsOf(table, x) # {}}}

\* cbr.py / nbs.py: the range of the one currency, or None (the empty set here).
get_rate_date_range(table, currency) == get_rate_date_ranges(table, <<currency>>)

Has(date_ranges, c) == \E r \in date_ranges : r.base_currency = c
Get(date_ranges, c) == CHOOSE r \in date_ranges : r.base_currency = c

get_earliest_transaction_date ==
    IF ledger_entries # {}
    THEN CHOOSE d \in ledger_entries : \A e \in ledger_entries : d <= e
    ELSE today - LOOKBACK

\* One INSERT without the ON CONFLICT clause: the unique index the clause
\* names rejects a second row of the key.
InsertPlain(table, row) ==
    IF \E r \in BagToSet(table) : SameKey(r, row)
    THEN [table |-> table, err |-> "UniqueViolation"]
    ELSE [table |-> table (+) SetToBag({row}), err |-> "none"]

\* One INSERT ... ON CONFLICT (base_currency, quote_currency, rate_date) DO NOTHING.
InsertOnConflictDoNothing(table, row) ==
    IF \E r \in BagToSet(table) : SameKey(r, row)
    THEN [table |-> table, err |-> "none"]
    ELSE [table |-> table (+) SetToBag({row}), err |-> "none"]

\* cur.executemany(...); conn.commit(): the statements run in order in one
\* transaction; an error aborts it and nothing is committed.
RECURSIVE ExecuteMany(_, _)
ExecuteMany(table, rows) ==
    IF rows = <<>> THEN [table |-> table, err |-> "none"]
    ELSE LET one == InsertOnConflictDoNothing(table, Head(rows))
         IN  IF one.err # "none" THEN one ELSE ExecuteMany(one.table, Tail(rows))

\* insert_rows (the same function in ecb.py, cbr.py and nbs.py).
insert_rows(table, rows) ==
    IF rows = <<>> THEN [table |-> table, err |-> "none", count |-> 0]
    ELSE LET done == ExecuteMany(table, rows)
         IN  IF done.err # "none" THEN [table |-> table, err |-> done.err, count |-> 0]
             ELSE [table |-> done.table, err |-> "none",
                   count |-> Len(rows)]

----------------------------------------------------------------------------
(* Orchestration: the pure parts of the three run() functions *)

\* ecb.py: the currency key of the API call ("USD" is not in the config list).
determine_ecb_currencies(requested) ==
    Sorted({"USD"} \cup {requested[i] : i \in {j \in 1..Len(requested) : requested[j] # "EUR"}})

\* The comparison with the range's two end dates let through.
OutsideOrOnEdge(row, existing) ==
    row.rate_date <= existing.min_date \/ row.rate_date >= existing.max_date

\* The condition of the three filter_new_rows.
Outside(row, existing) ==
    row.rate_date < existing.min_date \/ row.rate_date > existing.max_date

ecb_filter_new_rows(all_rows, date_ranges, requested_currencies) ==
    SelectSeq(all_rows, LAMBDA row :
        /\ row.base_currency \in Range(requested_currencies)
        /\ \/ ~Has(date_ranges, row.base_currency)
           \/ Outside(row, Get(date_ranges, row.base_currency)))

cbr_filter_new_rows(all_rows, existing_range) ==
    IF existing_range = {} THEN all_rows
    ELSE SelectSeq(all_rows, LAMBDA r : Outside(r, Get(existing_range, CBR_CURRENCY)))

nbs_filter_new_rows(all_rows, existing_range) ==
    IF existing_range = {} THEN all_rows
    ELSE SelectSeq(all_rows, LAMBDA r : Outside(r, Get(existing_range, NBS_CURRENCY)))

\* ecb.run: the window start (needs_backfill, earliest_max).
ecb_needs_backfill(date_ranges, target_start) ==
    LET all_currencies_present ==
            \A i \in 1..Len(ECB_CURRENCIES) : Has(date_ranges, ECB_CURRENCIES[i])
    IN  \/ ~all_currencies_present
        \/ \E r \in date_ranges : r.min_date > target_start

ecb_start(date_ranges, target_start) ==
    IF ecb_needs_backfill(date_ranges, target_start) THEN target_start
    ELSE LET earliest_max ==
                CHOOSE m \in {r.max_date : r \in date_ranges} :
                    \A r \in date_ranges : m <= r.max_date
         IN  earliest_max + 1

\* Forward fill that starts on the last covered day, not on the day after it.
cbr_start_on_max_date(existing_range, target_start) ==
    IF existing_range # {}
    THEN IF Get(existing_range, CBR_CURRENCY).min_date > target_start
         THEN target_start
         ELSE Get(existing_range, CBR_CURRENCY).max_date
    ELSE target_start

\* cbr.run: the window start.
cbr_start(existing_range, target_start) ==
    IF existing_range # {}
    THEN IF Get(existing_range, CBR_CURRENCY).min_date > target_start
         THEN target_start
         ELSE Get(existing_range, CBR_CURRENCY).max_date + 1
    ELSE target_start

\* nbs.run: the window start.
nbs_start(existing_range, target_start) ==
    IF existing_range # {}
    THEN IF Get(existing_range, NBS_CURRENCY).min_date > target_start
         THEN target_start
         ELSE Get(existing_range, NBS_CURRENCY).max_date + 1
    ELSE target_start

LatestDate(new_rows, end) ==
    IF new_rows = <<>> THEN end
    ELSE CHOOSE d \in {new_rows[i].rate_date : i \in 1..Len(new_rows)} :
            \A i \in 1..Len(new_rows) : d >= new_rows[i].rate_date

\* What run() does with a payload up to the call of insert_rows: an error to
\* raise (all_rows then holds what the converter had built), an early result
\* (early), or the rows for the sink.
Processed(e, early, all_rows, new_rows, missing, latest) ==
    [err |-> e, early |-> early, all_rows |-> all_rows, new_rows |-> new_rows,
     missing |-> missing, latest |-> latest]

\* missing_currencies taken from the rows that passed the filter.
ecb_filtered_missing_among_new(all_rows, new_rows, end) ==
    LET returned_currencies == {new_rows[i].base_currency : i \in 1..Len(new_rows)}
        missing == SelectSeq(ECB_CURRENCIES, LAMBDA c : c \notin returned_currencies)
    IN  Processed("none", FALSE, all_rows, new_rows, missing, LatestDate(new_rows, end))

\* ecb.run from the parsed rates on, from the converted rows on, from the
\* filtered rows on.
ecb_filtered(all_rows, new_rows, end) ==
    LET returned_currencies == {all_rows[i].base_currency : i \in 1..Len(all_rows)}
        missing == SelectSeq(ECB_CURRENCIES, LAMBDA c : c \notin returned_currencies)
    IN  Processed("none", FALSE, all_rows, new_rows, missing, LatestDate(new_rows, end))

ecb_converted(all_rows, date_ranges, end) ==
    IF all_rows.err # "none"
    THEN Processed(all_rows.err, FALSE, all_rows.out, <<>>, <<>>, end)
    ELSE ecb_filtered(all_rows.out,
                      ecb_filter_new_rows(all_rows.out, date_ranges, ECB_CURRENCIES), end)

ecb_parsed(ecb_rates, date_ranges, end) ==
    IF ecb_rates.err # "none"
    THEN Processed(ecb_rates.err, FALSE, <<>>, <<>>, <<>>, end)
    ELSE ecb_converted(convert_eur_rates_to_usd(ecb_rates.out), date_ranges, end)

ecb_process(csv_text, date_ranges, end) ==
    ecb_parsed(parse_ecb_csv(csv_text), date_ranges, end)

\* cbr.run, likewise.
cbr_filtered(all_rows, new_rows, end) ==
    Processed("none", FALSE, all_rows, new_rows, <<>>, LatestDate(new_rows, end))

cbr_converted(all_rows, existing_range, end) ==
    IF all_rows.err # "none"
    THEN Processed(all_rows.err, FALSE, all_rows.out, <<>>, <<>>, end)
    ELSE cbr_filtered(all_rows.out, cbr_filter_new_rows(all_rows.out, existing_range), end)

cbr_parsed(records, existing_range, end) ==
    LET latest_str == IF existing_range # {}
                      THEN Get(existing_range, CBR_CURRENCY).max_date ELSE end
    IN  IF records.err # "none" THEN Processed(records.err, FALSE, <<>>, <<>>, <<>>, end)
        ELSE IF records.out = <<>> THEN Processed("none", TRUE, <<>>, <<>>, <<>>, latest_str)
        ELSE cbr_converted(convert_cbr_to_usd(records.out), existing_range, end)

cbr_process(xml_bytes, existing_range, end) ==
    cbr_parsed(parse_cbr_xml(xml_bytes), existing_range, end)

\* nbs.run, likewise.
nbs_filtered(all_rows, new_rows, end) ==
    Processed("none", FALSE, all_rows, new_rows, <<>>, LatestDate(new_rows, end))

nbs_converted(all_rows, existing_range, end) ==
    nbs_filtered(all_rows.out, nbs_filter_new_rows(all_rows.out, existing_range), end)

nbs_parsed(records, existing_range, end) ==
    LET latest_str == IF existing_range # {}
                      THEN Get(existing_range, NBS_CURRENCY).max_date ELSE end
    IN  IF records.err # "none" THEN Processed(records.err, FALSE, <<>>, <<>>, <<>>, end)
        ELSE IF records.out = <<>> THEN Processed("none", TRUE, <<>>, <<>>, <<>>, latest_str)
        ELSE nbs_converted(convert_nbs_to_usd(records.out), existing_range, end)

nbs_process(raw_entries, existing_range, end) ==
    nbs_parsed(parse_nbs_response(raw_entries), existing_range, end)

----------------------------------------------------------------------------
(* State *)

\* What a run started after an interrupted one is compared with: where the
\* interrupted run was stopped (at), its window, and the table it would have
\* left had it not been stopped.
NoCrash == [at |-> "none", start |-> 0, end |-> 0, table |-> EmptyBag]

IdleRun ==
    [pc |-> "idle", provider |-> "none", date_ranges |-> {}, target_start |-> 0,
     start |-> 0, end |-> 0, fetched |-> FALSE, fault |-> "none",
     all_rows |-> <<>>, new_rows |-> <<>>,
     inserted |-> 0, latest_date |-> 0, missing |-> <<>>,
     added |-> 0, rerun |-> FALSE, error |-> "none", recovers |-> NoCrash]

IdleCaller == [status |-> "idle", todo |-> <<>>]

\* cursor and requests: the loop of fetch_nbs_rates (its position, the
\* (cursor, count) pairs it has put in a URL).
NoConv == [fn |-> "none", input |-> <<>>, done |-> FALSE, err |-> "none", rows |-> <<>>,
           cursor |-> 0, requests |-> <<>>]

AllProviders == <<"ecb", "cbr", "nbs">>

Feeds == UNION {{[live |-> p, days |-> f] : f \in [Days -> Kinds(p)]} : p \in Providers}

Quiet == \A s \in Procs : run[s].pc = "idle" /\ caller[s].status = "idle"

Init ==
    /\ exchange_rates = EmptyBag
    /\ today = 0
    /\ ledger_entries = {}
    /\ feed \in Feeds
    /\ run = [s \in Procs |-> IdleRun]
    /\ caller = [s \in Procs |-> IdleCaller]
    /\ conv = NoConv

----------------------------------------------------------------------------
(* The world outside the worker *)

\* Midnight passes.
AdvanceDay ==
    /\ Quiet
    /\ today < MaxDay
    /\ today' = today + 1
    /\ UNCHANGED <<exchange_rates, ledger_entries, feed, run, caller, conv>>

\* The ledger's earliest transaction date changes (an older entry is recorded,
\* entries are deleted), or the ledger becomes empty.
LedgerChange ==
    /\ Quiet
    /\ \E l \in {{}} \cup {{d} : d \in Days} :
          /\ l # ledger_entries
          /\ ledger_entries' = l
    /\ UNCHANGED <<exchange_rates, today, feed, run, caller, conv>>

----------------------------------------------------------------------------
(* run(conn), in the three steps that touch the outside: the coverage read *)
(* (with the window decision), the fetch (with the local processing that   *)
(* follows it) and the insert with its commit.                             *)

Requested(p) ==
    CASE p = "ecb" -> ECB_CURRENCIES
      [] p = "cbr" -> <<CBR_CURRENCY>>
      [] p = "nbs" -> <<NBS_CURRENCY>>

StartOf(p, date_ranges, target_start) ==
    CASE p = "ecb" -> ecb_start(date_ranges, target_start)
      [] p = "cbr" -> cbr_start(date_ranges, target_start)
      [] p = "nbs" -> nbs_start(date_ranges, target_start)

\* run(), lines up to "if start > end": read coverage and demand floor, decide
\* the window, return at once when it is empty.
PlanRecovering(s, p, again, recovers) ==
    LET date_ranges == get_rate_date_ranges(exchange_rates, Requested(p))
        target_start == get_earliest_transaction_date
        start == StartOf(p, date_ranges, target_start)
        end == today
        planned == [IdleRun EXCEPT !.provider = p, !.date_ranges = date_ranges,
                       !.target_start = target_start, !.start = start, !.end = end,
                       !.rerun = again, !.recovers = recovers]
    IN  run' = [run EXCEPT ![s] =
             IF start > end
             THEN [planned EXCEPT !.pc = "returned", !.inserted = 0, !.latest_date = end]
             ELSE [planned EXCEPT !.pc = "fetch"]]

Plan(s, p, again) == PlanRecovering(s, p, again, NoCrash)

----------------------------------------------------------------------------
(* Entrypoints.  Each starts with the first fetcher's coverage read.       *)

Free(s) == caller[s].status = "idle" /\ run[s].pc = "idle"

\* lambda_handler.handler: run_ecb, run_cbr, run_nbs in one try/finally.
handler(s) ==
    /\ Free(s)
    /\ caller' = [caller EXCEPT ![s] = [status |-> "running", todo |-> Tail(AllProviders)]]
    /\ Plan(s, Head(AllProviders), FALSE)
    /\ UNCHANGED <<exchange_rates, today, ledger_entries, feed, conv>>

\* scheduler.run_all: three _run_fetcher calls in a row.
run_all(s) ==
    /\ Free(s)
    /\ caller' = [caller EXCEPT ![s] = [status |-> "running", todo |-> Tail(AllProviders)]]
    /\ Plan(s, Head(AllProviders), FALSE)
    /\ UNCHANGED <<exchange_rates, today, ledger_entries, feed, conv>>

\* scheduler._run_fetcher as a scheduled job of its own (ECB 08:00, CBR 08:05, NBS 08:10).
run_fetcher(s, p) ==
    /\ Free(s)
    /\ Plan(s, p, FALSE)
    /\ UNCHANGED <<exchange_rates, today, ledger_entries, feed, caller, conv>>

\* The job that has just returned is run once more, nothing else having happened
\* in between (same today, same ledger, same published data).
run_fetcher_again(s) ==
    /\ run[s].pc = "returned"
    /\ run[s].fault = "none"
    /\ caller[s].status = "idle"
    /\ Plan(s, run[s].provider, TRUE)
    /\ UNCHANGED <<exchange_rates, today, ledger_entries, feed, caller, conv>>

\* The entrypoint calls its next fetcher.
CallNext(s) ==
    /\ caller[s].status = "running"
    /\ run[s].pc = "idle"
    /\ caller' = [caller EXCEPT ![s].todo = Tail(@)]
    /\ Plan(s, Head(caller[s].todo), FALSE)
    /\ UNCHANGED <<exchange_rates, today, ledger_entries, feed, conv>>

\* What the transport hands back in place of the published payload when the
\* provider serves a damaged record at position i.
Damaged(p, payload, fault, i) ==
    CASE fault = "malformed" /\ p = "ecb" -> [payload EXCEPT ![i].OBS_VALUE = BadText]
      [] fault = "malformed" /\ p = "cbr" -> [payload EXCEPT ![i].Value = AbsentText]
      [] fault = "malformed" /\ p = "nbs" -> [payload EXCEPT ![i].exchange_middle = AbsentText]
      [] fault = "zero" /\ p = "ecb" ->
            IF payload[i].CURRENCY = "USD" THEN payload
            ELSE [payload EXCEPT ![i].OBS_VALUE = Num(0, 0)]
      [] fault = "zero" /\ p = "cbr" -> [payload EXCEPT ![i].Value = Num(0, 0)]
      [] fault = "zero" /\ p = "nbs" -> [payload EXCEPT ![i].exchange_middle = Num(0, 0)]
      [] fault = "no_usd" ->
            SelectSeq(payload, LAMBDA row :
                ~(row.CURRENCY = "USD" /\ row.TIME_PERIOD = payload[i].TIME_PERIOD))

DataFaults(p) == IF p = "ecb" THEN {"malformed", "zero", "no_usd"} ELSE {"malformed", "zero"}

Published(p, start, end) ==
    CASE p = "ecb" -> fetch_ecb_rates(determine_ecb_currencies(ECB_CURRENCIES), start, end)
      [] p = "cbr" -> fetch_cbr_rates(start, end)
      [] p = "nbs" -> fetch_nbs_rates(start, end)

Process(p, payload, date_ranges, end) ==
    CASE p = "ecb" -> ecb_process(payload, date_ranges, end)
      [] p = "cbr" -> cbr_process(payload, date_ranges, end)
      [] p = "nbs" -> nbs_process(payload, date_ranges, end)

\* The table run() leaves when nothing interrupts it: the three steps in a row.
TableAfterProcessed(table, out) ==
    IF out.err # "none" \/ out.early THEN table
    ELSE insert_rows(table, out.new_rows).table

UninterruptedRun(table, p) ==
    LET date_ranges == get_rate_date_ranges(table, Requested(p))
        start == StartOf(p, date_ranges, get_earliest_transaction_date)
    IN  IF start > today THEN table
        ELSE TableAfterProcessed(table,
                Process(p, Published(p, start, today), date_ranges, today))

\* The process is killed while run() is between two of its steps, or has just
\* committed its insert, and the job is started again (same today, same ledger,
\* same published data).  A run stopped after its commit has left what it was
\* going to leave; one stopped earlier has left the table untouched.
rerun_after_crash(s) ==
    /\ run[s].pc \in {"fetch", "insert", "returned"}
    /\ run[s].recovers.at = "none"
    /\ caller[s].status = "idle"
    /\ PlanRecovering(s, run[s].provider, FALSE,
            [at |-> run[s].pc, start |-> run[s].start, end |-> run[s].end,
             table |-> IF run[s].pc = "returned" THEN exchange_rates
                       ELSE UninterruptedRun(exchange_rates, run[s].provider)])
    /\ UNCHANGED <<exchange_rates, today, ledger_entries, feed, caller, conv>>

\* The table after the rows built so far were written all the same.
TableAfterRaiseKeepingRows(table, rows) == ExecuteMany(table, rows).table

\* An exception unwinds run() before insert_rows was reached: the rows built so
\* far go with the converter's frame, the table is as it was.
TableAfterRaise(table, rows) == table

\* run() once the payload has been processed (out): raise, return early, or go
\* on to insert_rows.
FetchOutcome(s, fault, out) ==
    LET r == run[s]
        got == [r EXCEPT !.fetched = TRUE, !.fault = fault,
                         !.rerun = r.rerun /\ fault = "none"]
    IN  IF out.err # "none"
        THEN /\ run' = [run EXCEPT ![s] = [got EXCEPT !.pc = "raised", !.error = out.err]]
             /\ exchange_rates' = TableAfterRaise(exchange_rates, out.all_rows)
        ELSE /\ run' = [run EXCEPT ![s] =
                    IF out.early
                    THEN [got EXCEPT !.pc = "returned", !.inserted = 0,
                                     !.latest_date = out.latest]
                    ELSE [got EXCEPT !.pc = "insert", !.all_rows = out.all_rows,
                                     !.new_rows = out.new_rows, !.missing = out.missing,
                                     !.latest_date = out.latest]]
             /\ UNCHANGED exchange_rates

FetchWith(s, fault, payload) ==
    FetchOutcome(s, fault, Process(run[s].provider, payload, run[s].date_ranges, run[s].end))

\* fetch_*_rates(start, end) and everything up to the call of insert_rows.
Fetch(s) ==
    /\ run[s].pc = "fetch"
    /\ FetchWith(s, "none", Published(run[s].provider, run[s].start, run[s].end))
    /\ UNCHANGED <<today, ledger_entries, feed, caller, conv>>

\* response.raise_for_status() raises.
FetchFails(s) ==
    /\ run[s].pc = "fetch"
    /\ run' = [run EXCEPT ![s] = [@ EXCEPT !.pc = "raised", !.error = "HTTPError",
                                            !.fetched = TRUE, !.fault = "transport",
                                            !.rerun = FALSE]]
    /\ UNCHANGED <<exchange_rates, today, ledger_entries, feed, caller, conv>>

\* The provider serves a payload whose first or last record is damaged.
FetchDamaged(s) ==
    /\ run[s].pc = "fetch"
    /\ LET payload == Published(run[s].provider, run[s].start, run[s].end)
       IN  \E fault \in DataFaults(run[s].provider) : \E i \in {1, Len(payload)} \cap DOMAIN payload :
              LET damaged == Damaged(run[s].provider, payload, fault, i)
              IN  /\ damaged # payload
                  /\ FetchWith(s, fault, damaged)
    /\ UNCHANGED <<today, ledger_entries, feed, caller, conv>>

\* run() once insert_rows has ended (res).
Inserted(s, res) ==
    /\ exchange_rates' = res.table
    /\ run' = [run EXCEPT ![s] =
            IF res.err # "none"
            THEN [@ EXCEPT !.pc = "raised", !.error = res.err]
            ELSE [@ EXCEPT !.pc = "returned", !.inserted = res.count,
                           !.added = BagCardinality(res.table)
                                        - BagCardinality(exchange_rates)]]

\* inserted = insert_rows(conn, new_rows), and the result record.
Insert(s) ==
    /\ run[s].pc = "insert"
    /\ Inserted(s, insert_rows(exchange_rates, run[s].new_rows))
    /\ UNCHANGED <<today, ledger_entries, feed, caller, conv>>

\* run() is over: its result goes to the caller, or its exception passes through
\* the caller's try/finally (conn.close()) and ends the entrypoint, whatever was
\* still to be called.
Finish(s) ==
    /\ run[s].pc \in {"returned", "raised"}
    /\ caller' = [caller EXCEPT ![s] =
            IF @.status # "running" THEN @
            ELSE IF run[s].pc = "raised" THEN [@ EXCEPT !.status = "raised"]
            ELSE IF @.todo = <<>> THEN IdleCaller
            ELSE @]
    /\ run' = [run EXCEPT ![s] = IdleRun]
    /\ UNCHANGED <<exchange_rates, today, ledger_entries, feed, conv>>

\* The failed entrypoint is gone (the Lambda invocation ends in an error; the
\* scheduler process dies and is started again).
Exit(s) ==
    /\ caller[s].status = "raised"
    /\ caller' = [caller EXCEPT ![s] = IdleCaller]
    /\ UNCHANGED <<exchange_rates, today, ledger_entries, feed, run, conv>>

----------------------------------------------------------------------------
(* Specifications *)

\* One process, the scheduled job of the publishing provider again and again,
\* the world changing between the runs.
Next ==
    \/ AdvanceDay
    \/ LedgerChange
    \/ run_fetcher(1, feed.live)
    \/ run_fetcher_again(1)
    \/ Fetch(1)
    \/ FetchDamaged(1)
    \/ Insert(1)
    \/ Finish(1)

Spec == Init /\ [][Next]_vars

\* One process, the entrypoints that call the three fetchers in a row.
NextEntry ==
    \/ handler(1)
    \/ run_all(1)
    \/ CallNext(1)
    \/ Fetch(1)
    \/ FetchFails(1)
    \/ FetchDamaged(1)
    \/ Insert(1)
    \/ Finish(1)
    \/ Exit(1)

SpecEntry == Init /\ [][NextEntry]_vars

\* One process, the scheduled job of the publishing provider, every run of it
\* on undamaged data and left to return, the world changing between the runs.
NextRuns ==
    \/ AdvanceDay
    \/ LedgerChange
    \/ run_fetcher(1, feed.live)
    \/ Fetch(1)
    \/ Insert(1)
    \/ Finish(1)

SpecRuns == Init /\ [][NextRuns]_vars

\* One process, the scheduled job of the publishing provider, killed at most once
\* in a run and started again, the world changing between the jobs.
NextCrash ==
    \/ AdvanceDay
    \/ LedgerChange
    \/ run_fetcher(1, feed.live)
    \/ rerun_after_crash(1)
    \/ Fetch(1)
    \/ Insert(1)
    \/ Finish(1)

SpecCrash == Init /\ [][NextCrash]_vars

\* The provider holds its usual quotes, once, for each day it holds anything.
RegularFeeds == {f \in Feeds : \A d \in Days : f.days[d] \in {"closed", "full", "one"}}

\* Several processes running the publishing provider's job at the same time, on
\* one day.
InitConc ==
    /\ exchange_rates = EmptyBag
    /\ today = MaxDay
    /\ ledger_entries \in {{}} \cup {{d} : d \in Days}
    /\ feed \in RegularFeeds
    /\ run = [s \in Procs |-> IdleRun]
    /\ caller = [s \in Procs |-> IdleCaller]
    /\ conv = NoConv

NextConc ==
    \/ \E s \in Procs :
        \/ run_fetcher(s, feed.live)
        \/ Fetch(s)
        \/ Insert(s)
        \/ Finish(s)

SpecConc == InitConc /\ [][NextConc]_vars

----------------------------------------------------------------------------
(* The converters on their own: one application of one converter to a list *)
(* of records that passed its parser.                                      *)

\* quotes as the parsers hand them over
UsdQuotes == {Dec(10850, 4), Dec(1, 0), Dec(3, 0), Dec(0, 0)}
OtherQuotes == {Dec(8600, 4), Dec(351000, 4), Dec(1024, 0), Dec(10850, 4), Dec(0, 0)}
Nominals == {0, 1, 3, 10}
Values == {Dec(9150, 2), Dec(1024, 0), Dec(8600, 4), Dec(0, 0)}
Middles == {Dec(989309, 4), Dec(1024, 0), Dec(10850, 4)}

\* One date with a USD quote and a GBP quote; the same followed by another
\* date with other quotes; one date without its USD quote.
EcbInputs ==
    LET OneDay(d, u, c) == <<ECBRate("GBP", d, c), ECBRate("USD", d, u)>>
    IN  {OneDay(d, u, c) : d \in Days, u \in UsdQuotes, c \in OtherQuotes}
        \cup {OneDay(0, u, c) \o OneDay(1, Dec(10850, 4), Dec(8600, 4)) :
                u \in UsdQuotes, c \in OtherQuotes}
        \cup {<<ECBRate("GBP", d, c)>> : d \in Days, c \in OtherQuotes}

CbrInputs ==
    {<<CBRRecord(d, n, v)>> : d \in Days, n \in Nominals, v \in Values}
        \cup {<<CBRRecord(0, 1, Dec(9150, 2)), CBRRecord(1, n, v)>> : n \in Nominals, v \in Values}

NbsInputs ==
    {<<NBSRecord(d, m)>> : d \in Days, m \in Middles}
        \cup {<<NBSRecord(0, Dec(989309, 4)), NBSRecord(1, m)>> : m \in Middles}

ConvInputs(fn) ==
    CASE fn = "convert_eur_rates_to_usd" -> EcbInputs
      [] fn = "convert_cbr_to_usd" -> CbrInputs
      [] fn = "convert_nbs_to_usd" -> NbsInputs

Converters == {"convert_eur_rates_to_usd", "convert_cbr_to_usd", "convert_nbs_to_usd"}

InitConv ==
    /\ exchange_rates = EmptyBag
    /\ today = 0
    /\ ledger_entries = {}
    /\ feed = [live |-> "ecb", days |-> [d \in Days |-> "closed"]]
    /\ run = [s \in Procs |-> IdleRun]
    /\ caller = [s \in Procs |-> IdleCaller]
    /\ conv \in UNION {{[NoConv EXCEPT !.fn = fn, !.input = input] : input \in ConvInputs(fn)} :
                            fn \in Converters}

\* The call returns its rows or raises.
Converted(result) ==
    /\ conv' = [conv EXCEPT !.done = TRUE, !.err = result.err,
                            !.rows = IF result.err = "none" THEN result.out ELSE <<>>]
    /\ UNCHANGED <<exchange_rates, today, ledger_entries, feed, run, caller>>

call_convert_eur_rates_to_usd ==
    /\ conv.fn = "convert_eur_rates_to_usd" /\ ~conv.done
    /\ Converted(convert_eur_rates_to_usd(conv.input))

call_convert_cbr_to_usd ==
    /\ conv.fn = "convert_cbr_to_usd" /\ ~conv.done
    /\ Converted(convert_cbr_to_usd(conv.input))

call_convert_nbs_to_usd ==
    /\ conv.fn = "convert_nbs_to_usd" /\ ~conv.done
    /\ Converted(convert_nbs_to_usd(conv.input))

NextConv ==
    \/ call_convert_eur_rates_to_usd
    \/ call_convert_cbr_to_usd
    \/ call_convert_nbs_to_usd

SpecConv == InitConv /\ [][NextConv]_vars

----------------------------------------------------------------------------
(* The parsers on their own: one application of one parser to a payload of  *)
(* one or two records, each field of a record as the provider may send it.  *)

ObsValues == {Num(8600, 4), Num(0, 0), EmptyText, BadText, AbsentText}
DateTexts == {DateText(0), BadDate, AbsentDate}
NominalTexts == {Num(1, 0), Num(15, 1), EmptyText, BadText, AbsentText}
ValueTexts == {Num(9150, 2), Num(0, 0), EmptyText, BadText, AbsentText}
MiddleTexts == {Num(989309, 4), Num(0, 0), EmptyText, BadText, AbsentText}

EcbUsdRow(d) == [CURRENCY |-> "USD", TIME_PERIOD |-> d, OBS_VALUE |-> EcbQuote("USD")]

\* A GBP row of any shape, alone, before and after a well-formed USD row.
EcbPayloads ==
    LET Row(v) == [CURRENCY |-> "GBP", TIME_PERIOD |-> 0, OBS_VALUE |-> v]
    IN  {<<Row(v)>> : v \in ObsValues}
        \cup {<<Row(v), EcbUsdRow(0)>> : v \in ObsValues}
        \cup {<<EcbUsdRow(0), Row(v)>> : v \in ObsValues}

\* A record of any shape, alone, and after a well-formed record.
CbrPayloads ==
    LET El(d, n, v) == [Date |-> d, Nominal |-> n, Value |-> v]
        Els == {El(d, n, v) : d \in DateTexts, n \in NominalTexts, v \in ValueTexts}
    IN  {<<el>> : el \in Els} \cup {<<CbrElement(1), el>> : el \in Els}

NbsPayloads ==
    LET En(d, m) == [date |-> d, exchange_middle |-> m]
        Ens == {En(d, m) : d \in DateTexts, m \in MiddleTexts}
    IN  {<<en>> : en \in Ens} \cup {<<NbsEntry(1), en>> : en \in Ens}
            \cup {<<en, NbsEntry(1)>> : en \in Ens}

ParseInputs(fn) ==
    CASE fn = "parse_ecb_csv" -> EcbPayloads
      [] fn = "parse_cbr_xml" -> CbrPayloads
      [] fn = "parse_nbs_response" -> NbsPayloads

Parsers == {"parse_ecb_csv", "parse_cbr_xml", "parse_nbs_response"}

InitParse ==
    /\ exchange_rates = EmptyBag
    /\ today = 0
    /\ ledger_entries = {}
    /\ feed = [live |-> "ecb", days |-> [d \in Days |-> "closed"]]
    /\ run = [s \in Procs |-> IdleRun]
    /\ caller = [s \in Procs |-> IdleCaller]
    /\ conv \in UNION {{[NoConv EXCEPT !.fn = fn, !.input = input] : input \in ParseInputs(fn)} :
                            fn \in Parsers}

call_parse_ecb_csv ==
    /\ conv.fn = "parse_ecb_csv" /\ ~conv.done
    /\ Converted(parse_ecb_csv(conv.input))

call_parse_cbr_xml ==
    /\ conv.fn = "parse_cbr_xml" /\ ~conv.done
    /\ Converted(parse_cbr_xml(conv.input))

call_parse_nbs_response ==
    /\ conv.fn = "parse_nbs_response" /\ ~conv.done
    /\ Converted(parse_nbs_response(conv.input))

NextParse ==
    \/ call_parse_ecb_csv
    \/ call_parse_cbr_xml
    \/ call_parse_nbs_response

SpecParse == InitParse /\ [][NextParse]_vars

----------------------------------------------------------------------------
(* fetch_nbs_rates on its own, one pass of its while loop at a time, for    *)
(* windows up to a little over two full requests that end on one of the     *)
(* days the provider may hold something for.                                *)

WindowLengths == {1, 2, NBS_MAX_COUNT - 1, NBS_MAX_COUNT, NBS_MAX_COUNT + 1,
                  NBS_MAX_COUNT + 2, 2 * NBS_MAX_COUNT, 2 * NBS_MAX_COUNT + 1,
                  2 * NBS_MAX_COUNT + 3}

NbsFeeds == {f \in Feeds : f.live = "nbs"}

InitChunk ==
    /\ exchange_rates = EmptyBag
    /\ today \in Days
    /\ ledger_entries = {}
    /\ feed \in NbsFeeds
    /\ run = [s \in Procs |-> IdleRun]
    /\ caller = [s \in Procs |-> IdleCaller]
    /\ \E n \in WindowLengths :
          conv = [NoConv EXCEPT !.fn = "fetch_nbs_rates",
                                !.input = <<today - n + 1, today>>,
                                !.cursor = today - n + 1]

\* One pass of "while cursor <= end": one request, its entries added.
nbs_request ==
    /\ conv.fn = "fetch_nbs_rates" /\ ~conv.done
    /\ conv.cursor <= conv.input[2]
    /\ LET count == nbs_count((conv.input[2] - conv.cursor) + 1)
       IN  conv' = [conv EXCEPT
                !.requests = Append(@, [cursor |-> conv.cursor, count |-> count]),
                !.rows = @ \o NbsEntriesOf(NbsResponse(conv.cursor, count)),
                !.cursor = @ + count]
    /\ UNCHANGED <<exchange_rates, today, ledger_entries, feed, run, caller>>

\* The loop condition fails: return all_entries.
nbs_return ==
    /\ conv.fn = "fetch_nbs_rates" /\ ~conv.done
    /\ ~(conv.cursor <= conv.input[2])
    /\ conv' = [conv EXCEPT !.done = TRUE]
    /\ UNCHANGED <<exchange_rates, today, ledger_entries, feed, run, caller>>

NextChunk ==
    \/ nbs_request
    \/ nbs_return

\* The function runs on (nothing else is waited for but the HTTP responses,
\* which come or time out).
SpecChunk == InitChunk /\ [][NextChunk]_vars /\ WF_vars(NextChunk)

----------------------------------------------------------------------------
(* Properties *)

\* The start the single-currency rule gives currency c: the demand floor when c
\* has no coverage or its coverage begins after the floor, else the day after
\* its last covered day.
SingleCurrencyStart(date_ranges, c, demand_floor) ==
    IF ~Has(date_ranges, c) THEN demand_floor
    ELSE IF Get(date_ranges, c).min_date > demand_floor THEN demand_floor
    ELSE Get(date_ranges, c).max_date + 1

Minimum(S) == CHOOSE m \in S : \A x \in S : m <= x

\* C1: whatever the interleaving of the runs' coverage reads, fetches and
\* insert-commits, no two rows of the table have the same (base_currency,
\* quote_currency, rate_date) and no insert ends in a conflict error.
UniqueKeysAndNoConflictError ==
    /\ \A r \in TableRows : CopiesIn(r, exchange_rates) = 1
    /\ \A r1, r2 \in TableRows : SameKey(r1, r2) => r1 = r2
    /\ \A s \in Procs : run[s].error # "UniqueViolation"

\* A run whose batch held keys another run had committed after this run's
\* coverage read: its insert returned, and added fewer rows than the batch held.
OverlappingBatchInserted ==
    \E s \in Procs :
        /\ run[s].pc = "returned"
        /\ run[s].new_rows # <<>>
        /\ run[s].added < Len(run[s].new_rows)

\* C2: a run executed again after it returned, with the same today, the same
\* demand floor and the same published data, reports inserted = 0 and adds
\* no row.
SecondRunInsertsNothing ==
    \A s \in Procs :
        run[s].pc = "returned" /\ run[s].rerun =>
            run[s].inserted = 0 /\ run[s].added = 0

\* C3: in a CBR or NBS run, end = today and start = the demand floor when
\* there is no coverage or coverage begins after the floor, else max_date + 1;
\* the fetch happens iff start <= end, and a run with start > end returns
\* inserted = 0 having fetched and written nothing.
SingleCurrencyWindow ==
    \A s \in Procs : run[s].provider \in {"cbr", "nbs"} =>
        LET r == run[s]
            c == Requested(r.provider)[1]
        IN  /\ r.end = today
            /\ r.target_start = get_earliest_transaction_date
            /\ r.start = SingleCurrencyStart(r.date_ranges, c, r.target_start)
            /\ r.pc = "fetch" => r.date_ranges = get_rate_date_range(exchange_rates, c)
            /\ (r.start <= r.end) <=> (r.pc = "fetch" \/ r.fetched)
            /\ r.start > r.end =>
                  /\ r.pc = "returned"
                  /\ r.inserted = 0 /\ r.added = 0
                  /\ r.date_ranges = get_rate_date_range(exchange_rates, c)

\* A CBR or NBS run that found coverage reaching today (and beginning no later
\* than the floor) and returned without fetching.
EmptyWindowReturned ==
    \E s \in Procs :
        /\ run[s].provider \in {"cbr", "nbs"}
        /\ run[s].pc = "returned" /\ ~run[s].fetched
        /\ run[s].date_ranges # {}
        /\ \A r \in run[s].date_ranges :
              r.min_date <= run[s].target_start /\ r.max_date = today

\* C4: in an ECB run, end = today, backfill is decided iff some requested
\* currency is missing or has min_date > floor, and start is the least of the
\* starts the single-currency rule gives the requested currencies.
BatchedWindowIsEarliestSingleStart ==
    \A s \in Procs : run[s].provider = "ecb" =>
        LET r == run[s]
            requested == Range(ECB_CURRENCIES)
        IN  /\ r.end = today
            /\ ecb_needs_backfill(r.date_ranges, r.target_start) <=>
                  \E c \in requested :
                      \/ ~Has(r.date_ranges, c)
                      \/ Get(r.date_ranges, c).min_date > r.target_start
            /\ r.start = Minimum({SingleCurrencyStart(r.date_ranges, c, r.target_start) :
                                      c \in requested})

\* Whether a row lies in the closed range its currency had in the coverage read.
Covered(row, date_ranges) ==
    /\ Has(date_ranges, row.base_currency)
    /\ Get(date_ranges, row.base_currency).min_date <= row.rate_date
    /\ row.rate_date <= Get(date_ranges, row.base_currency).max_date

\* C5: the rows handed to insert_rows are exactly the converted rows (of
\* requested currencies) that lie strictly outside the [min_date, max_date]
\* their currency had in the run's coverage read, in their order; none lies
\* inside.
SinkGetsExactlyTheUncoveredRows ==
    \A s \in Procs : run[s].pc = "insert" =>
        LET r == run[s]
        IN  /\ r.new_rows = SelectSeq(r.all_rows, LAMBDA row :
                    /\ row.base_currency \in Range(Requested(r.provider))
                    /\ ~Covered(row, r.date_ranges))
            /\ \A i \in 1..Len(r.new_rows) : ~Covered(r.new_rows[i], r.date_ranges)

\* A run about to insert, whose converted rows held both covered rows (kept
\* back) and uncovered ones (passed on).
FilterDroppedAndKept ==
    \E s \in Procs :
        /\ run[s].pc = "insert"
        /\ run[s].new_rows # <<>>
        /\ \E i \in 1..Len(run[s].all_rows) : Covered(run[s].all_rows[i], run[s].date_ranges)

\* C6: the count a run reports as inserted is the number of rows its insert
\* added to the table.
InsertedIsRowsAdded ==
    \A s \in Procs : run[s].pc = "returned" => run[s].inserted = run[s].added

ParserConverterErrors == {"ValueError", "MissingReferenceRate", "DivisionByZero"}

\* C7: the step in which a run raises a parser or converter error leaves the
\* table as it is, the raising run has inserted nothing, and the table still
\* has the coverage the run read when it started.
NoPartialSuccess ==
    [][\A s \in Procs :
          run[s].pc # "raised" /\ run'[s].pc = "raised"
              /\ run'[s].error \in ParserConverterErrors =>
                /\ exchange_rates' = exchange_rates
                /\ run'[s].inserted = 0 /\ run'[s].added = 0
                /\ get_rate_date_ranges(exchange_rates', Requested(run'[s].provider))
                        = run'[s].date_ranges]_vars

\* A run that raised on a payload of several records, one of them damaged.
RaisedOnPartlyValidPayload ==
    \E s \in Procs :
        /\ run[s].pc = "raised"
        /\ run[s].error \in ParserConverterErrors
        /\ Len(Published(run[s].provider, run[s].start, run[s].end)) >= 2

\* C8: an entrypoint never ends on a provider's exception with providers of
\* its sequence still to be called.
RemainingProvidersStillRun ==
    \A s \in Procs : caller[s].status = "raised" => caller[s].todo = <<>>

\* C9: every row a converter returns has rate > 0, written with exactly
\* QUANT digits after the decimal point.
RatesPositiveWithNineDecimals ==
    conv.done /\ conv.err = "none" =>
        \A i \in 1..Len(conv.rows) :
            /\ ~IsZero(conv.rows[i].rate)
            /\ Scale(conv.rows[i].rate) = QUANT

\* n/d rounded half-even to QUANT places in one step, from the exact remainder.
HalfEvenQuotient(n, d) ==
    LET ld == LongDiv(<<>>, n % d, d, QUANT)
        up == \/ 2 * ld.rem > d
              \/ 2 * ld.rem = d /\ ld.digits[QUANT] % 2 = 1
    IN  IF ~up THEN [int |-> n \div d, frac |-> ld.digits]
        ELSE IF AllNines(ld.digits)
             THEN [int |-> (n \div d) + 1, frac |-> [i \in 1..QUANT |-> 0]]
             ELSE [int |-> n \div d, frac |-> Incr(ld.digits)]

\* a / b rounded half-even to QUANT places.
Reference(a, b) ==
    LET m == IF Scale(a) > Scale(b) THEN Scale(a) ELSE Scale(b)
    IN  HalfEvenQuotient(Scaled(a, m), Scaled(b, m))

SameNumber(x, y) ==
    LET m == IF Scale(x) > Scale(y) THEN Scale(x) ELSE Scale(y)
    IN  Scaled(x, m) = Scaled(y, m)

\* C10: a converter that returns gives one row per input record, with
\* quote_currency USD and the record's date; its rate is N / V (CBR), 1 / M
\* (NBS), U / C with the USD quote U of the same date (ECB), each rounded
\* half-even to QUANT places, and U itself for the ECB row of EUR.
RatesAreRoundedReferenceQuotients ==
    conv.done /\ conv.err = "none" =>
        /\ Len(conv.rows) = Len(conv.input)
        /\ \A i \in 1..Len(conv.rows) : conv.rows[i].quote_currency = "USD"
        /\ conv.fn = "convert_cbr_to_usd" =>
              \A i \in 1..Len(conv.input) :
                  conv.rows[i] = [base_currency |-> "RUB", quote_currency |-> "USD",
                                  rate_date |-> conv.input[i].rate_date,
                                  rate |-> Reference(Dec(conv.input[i].nominal, 0),
                                                     conv.input[i].value)]
        /\ conv.fn = "convert_nbs_to_usd" =>
              \A i \in 1..Len(conv.input) :
                  conv.rows[i] = [base_currency |-> "RSD", quote_currency |-> "USD",
                                  rate_date |-> conv.input[i].rate_date,
                                  rate |-> Reference(Dec(1, 0), conv.input[i].exchange_middle)]
        /\ conv.fn = "convert_eur_rates_to_usd" =>
              \A i \in 1..Len(conv.input) :
                  LET rec == conv.input[i]
                      U == CHOOSE u \in Range(conv.input) :
                              u.currency = "USD" /\ u.rate_date = rec.rate_date
                      base == IF rec.currency = "USD" THEN "EUR" ELSE rec.currency
                      row == CHOOSE r \in Range(conv.rows) :
                              r.base_currency = base /\ r.rate_date = rec.rate_date
                  IN  /\ \E r \in Range(conv.rows) :
                              r.base_currency = base /\ r.rate_date = rec.rate_date
                      /\ IF rec.currency = "USD"
                         THEN SameNumber(row.rate, rec.rate_eur)
                         ELSE row.rate = Reference(U.rate_eur, rec.rate_eur)

\* The spec's ECB example has been converted: U = 1.0850 and C = 0.8600 on one
\* date gave the GBP row 1.261627907.
ExampleQuotientConverted ==
    /\ conv.done /\ conv.err = "none"
    /\ \E i \in 1..Len(conv.input) :
          conv.input[i] = ECBRate("GBP", 0, Dec(8600, 4))
    /\ \E i \in 1..Len(conv.input) :
          conv.input[i] = ECBRate("USD", 0, Dec(10850, 4))
    /\ \E r \in Range(conv.rows) :
          /\ r.base_currency = "GBP" /\ r.rate_date = 0
          /\ r.rate = [int |-> 1, frac |-> <<2, 6, 1, 6, 2, 7, 9, 0, 7>>]

\* Whether a record of a parser's payload has a required field absent, empty
\* or non-numeric, or a zero in a field the converter divides by.
InvalidRecord(fn, rec) ==
    CASE fn = "parse_ecb_csv" ->
            \/ rec.OBS_VALUE.kind # "num"
            \/ rec.CURRENCY # "USD" /\ rec.OBS_VALUE.coef = 0
      [] fn = "parse_cbr_xml" ->
            \/ rec.Date.kind # "date"
            \/ rec.Nominal.kind # "num" \/ rec.Nominal.scale # 0
            \/ rec.Value.kind # "num" \/ rec.Value.coef = 0
      [] fn = "parse_nbs_response" ->
            \/ rec.date.kind # "date"
            \/ rec.exchange_middle.kind # "num" \/ rec.exchange_middle.coef = 0

\* C11: a parser applied to a payload one of whose records has a required
\* field absent, empty or non-numeric, or zero where a division follows,
\* raises and yields no records.
InvalidRecordAbortsParse ==
    conv.done /\ (\E i \in 1..Len(conv.input) : InvalidRecord(conv.fn, conv.input[i])) =>
        conv.err # "none" /\ conv.rows = <<>>

\* C12: a run started after a run of the same job was interrupted (before its
\* fetch, between fetch and insert, or after its insert commit), with the
\* same today, demand floor and published data, has a window that is the
\* interrupted run's or lies inside it, and when it returns the table is the
\* one the interrupted run would have left uninterrupted.
RerunAfterCrashConverges ==
    \A s \in Procs : run[s].recovers.at # "none" =>
        /\ \/ run[s].start > run[s].end
           \/ run[s].recovers.start <= run[s].start /\ run[s].end <= run[s].recovers.end
        /\ run[s].pc = "returned" => exchange_rates = run[s].recovers.table

\* Whether every requested currency had day d inside its [min_date, max_date]
\* in the coverage read.
CoveredForAll(date_ranges, requested, d) ==
    \A c \in Range(requested) :
        /\ Has(date_ranges, c)
        /\ Get(date_ranges, c).min_date <= d /\ d <= Get(date_ranges, c).max_date

\* C13: in every run, backfill or forward fill, no day that the coverage
\* read showed as covered (for ECB: covered for every requested currency)
\* lies in the run's window [start, end].
NoCoveredDayInWindow ==
    \A s \in Procs : run[s].provider # "none" =>
        \A d \in Days :
            run[s].start <= d /\ d <= run[s].end =>
                ~CoveredForAll(run[s].date_ranges, Requested(run[s].provider), d)

\* The rates a request (cursor, count) is answered with.
RatesOf(request) == NbsResponse(request.cursor, request.count).rates

\* The requests issued so far: each for 1..NBS_MAX_COUNT days, the first at
\* start, each next one beginning the day after the previous one's last day,
\* none past end; the entries are those of the responses in request order;
\* and on return the last request ends on end, one request having been
\* issued when the window has at most NBS_MAX_COUNT days.
ChunksTileWindow ==
    conv.fn = "fetch_nbs_rates" =>
        LET reqs == conv.requests
            start == conv.input[1]
            end == conv.input[2]
            n == Len(reqs)
        IN  /\ \A i \in 1..n : 1 <= reqs[i].count /\ reqs[i].count <= NBS_MAX_COUNT
            /\ n > 0 => reqs[1].cursor = start
            /\ \A i \in 1..(n - 1) : reqs[i + 1].cursor = reqs[i].cursor + reqs[i].count
            /\ \A i \in 1..n : reqs[i].cursor + reqs[i].count - 1 <= end
            /\ conv.rows = Flatten([i \in 1..n |-> RatesOf(reqs[i])])
            /\ conv.done =>
                  /\ n >= 1
                  /\ reqs[n].cursor + reqs[n].count - 1 = end
                  /\ (end - start) + 1 <= NBS_MAX_COUNT => n = 1
                  /\ conv.rows = fetch_nbs_rates(start, end)

\* C14: for every window with start <= end, fetch_nbs_rates returns, and
\* its requests are for 1 to NBS_MAX_COUNT days each, in increasing date
\* order, disjoint and together exactly [start, end], one request when the
\* window has at most NBS_MAX_COUNT days, the results concatenated in request
\* order.
ChunkingTerminatesAndTilesWindow ==
    /\ []ChunksTileWindow
    /\ <>(conv.fn = "fetch_nbs_rates" /\ conv.done)

\* A window longer than NBS_MAX_COUNT days has been fetched in several
\* requests, the first and the last of them answered with rates.
SeveralChunksFetched ==
    /\ conv.fn = "fetch_nbs_rates" /\ conv.done
    /\ Len(conv.requests) >= 2
    /\ RatesOf(conv.requests[1]) # <<>>
    /\ RatesOf(conv.requests[Len(conv.requests)]) # <<>>

\* Whether the ECB's response for [start, end] gives requested currency c a
\* row: a quote of c (of USD, for the EUR row) on a day of the window.
EcbYieldsRow(c, start, end) ==
    \E d \in WindowDays(start, end) :
        (IF c = "EUR" THEN "USD" ELSE c) \in EcbQuoted(Kind("ecb", d))

\* C15: an ECB run on an undamaged response does not raise whatever
\* currencies the response lacks; its missing_currencies is the list of the
\* requested currencies the response gave no row, the rows of the others
\* that passed the filter are in the table when it returns; and a run with
\* an empty window reports no missing currency.
MissingCurrenciesReportedNotRaised ==
    \A s \in Procs : run[s].provider = "ecb" /\ run[s].fault = "none" =>
        LET r == run[s]
        IN  /\ r.pc # "raised"
            /\ r.pc \in {"insert", "returned"} /\ r.fetched =>
                  /\ r.missing = SelectSeq(ECB_CURRENCIES,
                                     LAMBDA c : ~EcbYieldsRow(c, r.start, r.end))
                  /\ \A c \in Range(ECB_CURRENCIES) :
                        c \in Range(r.missing) <=>
                            ~\E i \in 1..Len(r.all_rows) : r.all_rows[i].base_currency = c
                  /\ \A i \in 1..Len(r.all_rows) :
                        ~Covered(r.all_rows[i], r.date_ranges) =>
                            /\ r.all_rows[i] \in Range(r.new_rows)
                            /\ r.pc = "returned" => r.all_rows[i] \in TableRows
            /\ r.pc = "returned" /\ ~r.fetched =>
                  r.start > r.end /\ r.missing = <<>> /\ r.inserted = 0

\* An ECB run returned having inserted rows of some requested currencies and
\* reported others as missing.
SomeInsertedSomeMissing ==
    \E s \in Procs :
        /\ run[s].provider = "ecb" /\ run[s].pc = "returned"
        /\ run[s].added > 0
        /\ run[s].missing # <<>>
        /\ Len(run[s].missing) < Len(ECB_CURRENCIES)

\* Whether provider p publishes, for day d, what gives requested currency c
\* a row (for the ECB: a quote of c and the USD quote; the USD quote for EUR).
PublishesRow(p, c, d) ==
    CASE p = "ecb" -> /\ "USD" \in EcbQuoted(Kind("ecb", d))
                      /\ (IF c = "EUR" THEN "USD" ELSE c) \in EcbQuoted(Kind("ecb", d))
      [] p = "cbr" -> Kind("cbr", d) \in {"one", "twice"}
      [] p = "nbs" -> Kind("nbs", d) = "one"

\* C16: from an empty table, after any sequence of runs that returned, the
\* demand floor and today changing between them, when a run returns the
\* table has a row (c, USD, d) for every requested currency c and every day d
\* from the demand floor to today for which the provider publishes c.
CompleteFromFloorToToday ==
    \A s \in Procs : run[s].pc = "returned" =>
        \A c \in Range(Requested(run[s].provider)) : \A d \in Days :
            /\ run[s].target_start <= d /\ d <= today
            /\ PublishesRow(run[s].provider, c, d)
            => \E r \in TableRows :
                    r.base_currency = c /\ r.quote_currency = "USD" /\ r.rate_date = d

====
